---- MODULE Spec2Model ----
(***************************************************************************)
(* Model of streamlit_app.py: a Streamlit page that fetches SALES_REVENUE  *)
(* from Snowflake, shows it in an editable grid, inserts a row typed into  *)
(* a form and upserts the selected rows through a staging table and MERGE. *)
(*                                                                         *)
(* The warehouse table has 38 columns.  The model keeps the two columns of *)
(* the MERGE's ON clause, the two columns of its UPDATE SET list and one   *)
(* column, LEVEL1ACCOUNTNAME, that stands for the 34 columns that appear   *)
(* in the INSERT list only.                                                *)
(***************************************************************************)
EXTENDS Bags, FiniteSets, Integers, Sequences, TLC

(* ------------------------------ bounds -------------------------------- *)
\* rows of the target table in an initial state
MaxInitRows == 2
\* rows of a dataframe passed to upsert_data
MaxSel == 2
\* rows selected in the grid of a page
MaxPick == 1
\* rows the target table may hold (guards of the writing actions)
MaxRows == 4

(* ------------------------------ values -------------------------------- *)
\* SQL NULL / pandas None: a value no text typed into the page equals
NULL == "<NULL>"

Cols == {"ORGANIZATIONID", "LEVEL1FORCEID", "LEVEL1ACCOUNTNAME", "SALES", "REVENUE"}
\* the columns of the MERGE's ON clause
KeyCols == {"ORGANIZATIONID", "LEVEL1FORCEID"}
\* the columns of the MERGE's UPDATE SET list
UpdateCols == {"SALES", "REVENUE"}
\* the columns of the MERGE's INSERT list
InsertCols == Cols

\* SQL's three-valued equality and conjunction: "T", "F" or "U" (unknown)
SqlEq(a, b) == IF a = NULL \/ b = NULL THEN "U" ELSE IF a = b THEN "T" ELSE "F"

SqlAnd(x, y) ==
    IF x = "F" \/ y = "F" THEN "F" ELSE IF x = "U" \/ y = "U" THEN "U" ELSE "T"

\* mutant of OnCondition: the join looks at ORGANIZATIONID only
OnConditionOneKey(t, s) == SqlEq(t.ORGANIZATIONID, s.ORGANIZATIONID) = "T"

\* mutant of OnCondition: null-safe comparison (IS NOT DISTINCT FROM)
OnConditionNullSafe(t, s) ==
    /\ t.ORGANIZATIONID = s.ORGANIZATIONID
    /\ t.LEVEL1FORCEID = s.LEVEL1FORCEID

\* ON target.ORGANIZATIONID = source.ORGANIZATIONID AND
\*    target.LEVEL1FORCEID = source.LEVEL1FORCEID : a pair joins when the
\* condition is true (not false, not unknown)
OnCondition(t, s) ==
    SqlAnd(SqlEq(t.ORGANIZATIONID, s.ORGANIZATIONID),
           SqlEq(t.LEVEL1FORCEID, s.LEVEL1FORCEID)) = "T"

(* ------------------------------ tables -------------------------------- *)
\* A table is a bag of rows; a row is a record over Cols.
RECURSIVE BagSum(_, _)
BagSum(B, S) ==
    IF S = {} THEN 0
    ELSE LET x == CHOOSE y \in S : TRUE IN B[x] + BagSum(B, S \ {x})

Size(B) == BagSum(B, DOMAIN B)

\* the rows of `source` that join target row t, counted with multiplicity
JoinCount(t, source) ==
    BagSum(source, {s \in DOMAIN source : OnCondition(t, s)})

\* mutant of UpdateSet: REVENUE is left out of the SET list
UpdateSetSalesOnly(t, s) == [t EXCEPT !.SALES = s.SALES]

\* UPDATE SET target.SALES = source.SALES, target.REVENUE = source.REVENUE
UpdateSet(t, s) == [t EXCEPT !.SALES = s.SALES, !.REVENUE = s.REVENUE]

\* INSERT (<all columns>) VALUES (source.<all columns>)
InsertValues(s) == [c \in InsertCols |-> s[c]]

\* the target row t after WHEN MATCHED (t joins exactly one source row)
Matched(t, source) ==
    IF JoinCount(t, source) = 0 THEN t
    ELSE UpdateSet(t, CHOOSE s \in DOMAIN source : OnCondition(t, s))

\* a bag from a set of keys and a count for each
MakeBag(S, cnt) == [r \in {x \in S : cnt[x] > 0} |-> cnt[r]]

\* mutant of NotMatchedRows: a source row is inserted whether or not it joined
NotMatchedRowsAll(target, source) == source

\* the source rows that join no target row: WHEN NOT MATCHED, one insert each
NotMatchedRows(target, source) ==
    LET S == {s \in DOMAIN source : \A t \in DOMAIN target : ~OnCondition(t, s)}
    IN  [s \in S |-> source[s]]

\* MERGE INTO target USING source ON ... WHEN MATCHED THEN UPDATE SET ...
\* WHEN NOT MATCHED THEN INSERT ... : the statement is atomic.  A target row
\* that joins more than one source row makes the statement nondeterministic;
\* Snowflake then raises an error (ERROR_ON_NONDETERMINISTIC_MERGE, which
\* the code leaves at its default) and the table is unchanged.
MergeInto(target, source) ==
    IF \E t \in DOMAIN target : JoinCount(t, source) > 1
    THEN [ok |-> FALSE, table |-> target]
    ELSE LET upd == {Matched(t, source) : t \in DOMAIN target}
             updCount == [r \in upd |->
                 BagSum(target, {t \in DOMAIN target : Matched(t, source) = r})]
             ins == NotMatchedRows(target, source)
             insRows == {InsertValues(s) : s \in DOMAIN ins}
             insCount == [r \in insRows |->
                 BagSum(ins, {s \in DOMAIN ins : InsertValues(s) = r})]
         IN  [ok |-> TRUE,
              table |-> MakeBag(upd, updCount) (+) MakeBag(insRows, insCount)]

(* --------------------------- the SQL literal --------------------------- *)
\* a statement the warehouse rejects
SqlError == "<ERROR>"

\* f"'{value}'" : the value between two quote characters, nothing escaped
Quote(value) == "'" \o value \o "'"

\* The text a single-quoted SQL literal body denotes: '' is one quote
\* character; a lone quote ends the literal early, which makes the statement
\* malformed.
RECURSIVE Unescape(_)
Unescape(body) ==
    IF body = "" THEN ""
    ELSE IF SubSeq(body, 1, 1) # "'"
         THEN LET rest == Unescape(SubSeq(body, 2, Len(body)))
              IN  IF rest = SqlError THEN SqlError ELSE SubSeq(body, 1, 1) \o rest
         ELSE IF Len(body) >= 2 /\ SubSeq(body, 2, 2) = "'"
              THEN LET rest == Unescape(SubSeq(body, 3, Len(body)))
                   IN  IF rest = SqlError THEN SqlError ELSE "'" \o rest
              ELSE SqlError

\* the value of one item of the VALUES list as the warehouse reads it
LiteralValue(lit) ==
    IF Len(lit) < 2 \/ SubSeq(lit, 1, 1) # "'" \/ SubSeq(lit, Len(lit), Len(lit)) # "'"
    THEN SqlError
    ELSE Unescape(SubSeq(lit, 2, Len(lit) - 1))

\* mutant of InsertQueryValues: an empty field is written as NULL
InsertQueryValuesNullIfEmpty(new_row) ==
    [c \in DOMAIN new_row |-> IF new_row[c] = "" THEN "NULL" ELSE Quote(new_row[c])]

\* values = ", ".join([f"'{value}'" for value in new_row.values()]), kept as
\* one item per key of new_row
InsertQueryValues(new_row) == [c \in DOMAIN new_row |-> Quote(new_row[c])]

\* what an item of the VALUES list denotes: the keyword NULL or a literal
ItemValue(item) == IF item = "NULL" THEN NULL ELSE LiteralValue(item)

\* INSERT INTO table (columns) VALUES (values): no column list or a malformed
\* item is a compilation error; a column that is not listed gets NULL
InsertInto(target, items) ==
    IF DOMAIN items = {} \/ \E c \in DOMAIN items : ItemValue(items[c]) = SqlError
    THEN [ok |-> FALSE, table |-> target]
    ELSE LET row == [c \in Cols |->
                        IF c \in DOMAIN items THEN ItemValue(items[c]) ELSE NULL]
         IN  [ok |-> TRUE, table |-> target (+) SetToBag({row})]

(* ------------------------------ inputs -------------------------------- *)
\* the bags over D with at most n rows
RowSets(D, n) ==
    {B \in UNION {[S -> 1..n] : S \in {X \in SUBSET D : Cardinality(X) <= n}} :
        Size(B) <= n}

\* the non-key cells of a row as fetched, and as edited in the grid
Payloads ==
    {[LEVEL1ACCOUNTNAME |-> "a", SALES |-> "0", REVENUE |-> "0"],
     [LEVEL1ACCOUNTNAME |-> "b", SALES |-> "1", REVENUE |-> "1"]}

MakeRow(org, force, pl) ==
    [ORGANIZATIONID |-> org, LEVEL1FORCEID |-> force,
     LEVEL1ACCOUNTNAME |-> pl.LEVEL1ACCOUNTNAME, SALES |-> pl.SALES,
     REVENUE |-> pl.REVENUE]

\* rows of the dataframes passed to upsert_data directly
GridRows ==
    {MakeRow(o, f, pl) : o \in {NULL, "1"}, f \in {"1", "2"}, pl \in Payloads}

\* rows a user of the page selects in the grid (after editing)
PageRows == {MakeRow(o, "1", pl) : o \in {NULL, "1"}, pl \in Payloads}

\* the texts typed into the form's field for a column
FormTexts(c) ==
    CASE c = "ORGANIZATIONID" -> {""}
      [] c = "LEVEL1ACCOUNTNAME" -> {"", "o'b"}
      [] OTHER -> {"1"}

\* the processes: two page executions (or direct callers of the functions)
Procs == {1, 2}

(* ------------------------------- state -------------------------------- *)
VARIABLES
    T,            \* the rows of SALES_REVENUE
    staging,      \* per session: the temp table SALES_REVENUE_STAGING
    session,      \* whether the process holds a session for upsert_data
    pc,           \* where each process is
    caller,       \* who called upsert_data: the page or a direct caller
    df_cols,      \* df.columns of the fetched dataframe
    sel_defined,  \* whether the name df_sel_row is bound (line 162 ran)
    df_sel_row,   \* the dataframe passed to upsert_data
    new_row,      \* the form's mapping from column to typed text
    shown,        \* the st.* messages of the current run
    log,          \* the statements of the current upsert_data call, in order
    Tentry,       \* history: T when the current upsert_data call began
    callNo,       \* 1, or 2 for the repeated call
    firstOk       \* whether call 1 showed the success message

vars == <<T, staging, session, pc, caller, df_cols, sel_defined, df_sel_row,
          new_row, shown, log, Tentry, callNo, firstOk>>

NoTable == [exists |-> FALSE, rows |-> EmptyBag]

\* the state before the page has run: the table holds a few rows, and one
\* user session executes the script (one execution at a time)
Init ==
    /\ T \in RowSets(PageRows, MaxInitRows)
    /\ staging = [p \in Procs |-> NoTable]
    /\ session = [p \in Procs |-> FALSE]
    /\ pc = [p \in Procs |-> IF p = 1 THEN "start" ELSE "off"]
    /\ caller = [p \in Procs |-> "page"]
    /\ df_cols = [p \in Procs |-> {}]
    /\ sel_defined = [p \in Procs |-> FALSE]
    /\ df_sel_row = [p \in Procs |-> EmptyBag]
    /\ new_row = [p \in Procs |-> <<>>]
    /\ shown = [p \in Procs |-> {}]
    /\ log = [p \in Procs |-> <<>>]
    /\ Tentry = [p \in Procs |-> EmptyBag]
    /\ callNo = [p \in Procs |-> 1]
    /\ firstOk = [p \in Procs |-> FALSE]

\* two users have the page open at the same time: both executions have
\* fetched a non-empty table, selected rows and left the form alone, and are
\* at the Upload button
InitRace ==
    /\ T \in RowSets(PageRows, MaxInitRows) \ {EmptyBag}
    /\ staging = [p \in Procs |-> NoTable]
    /\ session = [p \in Procs |-> FALSE]
    /\ pc = [p \in Procs |-> "button"]
    /\ caller = [p \in Procs |-> "page"]
    /\ df_cols = [p \in Procs |-> Cols]
    /\ sel_defined = [p \in Procs |-> TRUE]
    /\ df_sel_row \in [Procs -> {R \in RowSets(PageRows, MaxPick) : Size(R) <= Size(T)}]
    /\ new_row \in [Procs -> {[c \in Cols |-> IF c = "SALES" \/ c = "REVENUE" \/ c = "LEVEL1FORCEID" THEN "1" ELSE ""]}]
    /\ shown = [p \in Procs |-> {"fetch_session_ok"}]
    /\ log = [p \in Procs |-> <<>>]
    /\ Tentry = [p \in Procs |-> EmptyBag]
    /\ callNo = [p \in Procs |-> 1]
    /\ firstOk = [p \in Procs |-> FALSE]

\* the state upsert_data is exercised from: any small table, one caller
InitUpsert ==
    /\ T \in RowSets(GridRows, MaxInitRows)
    /\ staging = [p \in Procs |-> NoTable]
    /\ session = [p \in Procs |-> FALSE]
    /\ pc = [p \in Procs |-> IF p = 1 THEN "start" ELSE "off"]
    /\ caller = [p \in Procs |-> "page"]
    /\ df_cols = [p \in Procs |-> {}]
    /\ sel_defined = [p \in Procs |-> FALSE]
    /\ df_sel_row = [p \in Procs |-> EmptyBag]
    /\ new_row = [p \in Procs |-> <<>>]
    /\ shown = [p \in Procs |-> {}]
    /\ log = [p \in Procs |-> <<>>]
    /\ Tentry = [p \in Procs |-> EmptyBag]
    /\ callNo = [p \in Procs |-> 1]
    /\ firstOk = [p \in Procs |-> FALSE]

(* ----------------------------- upsert_data ----------------------------- *)
\* where upsert_data returns to
ReturnPc(p) == IF caller[p] = "page" THEN "end" ELSE "returned"

Show(p, m) == shown' = [shown EXCEPT ![p] = @ \cup {m}]

Logged(p, stmt, ok) == log' = [log EXCEPT ![p] = Append(@, <<stmt, ok>>)]

\* mutant of Raise: the exception of a statement is swallowed and the next
\* statement runs
RaiseSwallowed(p, stmt, next) ==
    /\ Logged(p, stmt, FALSE)
    /\ pc' = [pc EXCEPT ![p] = next]
    /\ UNCHANGED shown

\* a statement of the try block raises: the except clause (lines 106-107)
\* shows the error and upsert_data returns
Raise(p, stmt, next) ==
    /\ Logged(p, stmt, FALSE)
    /\ Show(p, "upsert_error")
    /\ pc' = [pc EXCEPT ![p] = ReturnPc(p)]

\* mutant of EnterUpsert: no test for an empty dataframe
EnterUpsertNoTest(p, R, who, before) ==
    /\ df_sel_row' = [df_sel_row EXCEPT ![p] = R]
    /\ caller' = [caller EXCEPT ![p] = who]
    /\ Tentry' = [Tentry EXCEPT ![p] = T]
    /\ log' = [log EXCEPT ![p] = <<>>]
    /\ pc' = [pc EXCEPT ![p] = "create"]
    /\ shown' = [shown EXCEPT ![p] = before]

\* upsert_data(session, R, TABLE_NAME) is entered by `who`, the messages
\* `before` on the page: line 63 tests R.empty, and the else branch (line
\* 109) only reports
EnterUpsert(p, R, who, before) ==
    /\ df_sel_row' = [df_sel_row EXCEPT ![p] = R]
    /\ caller' = [caller EXCEPT ![p] = who]
    /\ Tentry' = [Tentry EXCEPT ![p] = T]
    /\ log' = [log EXCEPT ![p] = <<>>]
    /\ IF R = EmptyBag
       THEN /\ shown' = [shown EXCEPT ![p] = before \cup {"info_no_upload"}]
            /\ pc' = [pc EXCEPT ![p] = IF who = "page" THEN "end" ELSE "returned"]
       ELSE /\ pc' = [pc EXCEPT ![p] = "create"]
            /\ shown' = [shown EXCEPT ![p] = before]

\* line 67: CREATE OR REPLACE TEMP TABLE SALES_REVENUE_STAGING AS SELECT *
\* FROM SALES_REVENUE LIMIT 0, in the caller's session
CreateStaging(p) ==
    /\ pc[p] = "create"
    /\ \/ /\ staging' = [staging EXCEPT ![p] = [exists |-> TRUE, rows |-> EmptyBag]]
          /\ Logged(p, "create", TRUE)
          /\ pc' = [pc EXCEPT ![p] = "load"]
          /\ UNCHANGED shown
       \/ /\ Raise(p, "create", "load")
          /\ UNCHANGED staging
    /\ UNCHANGED <<T, session, caller, df_cols, sel_defined, df_sel_row, new_row, Tentry,
                   callNo, firstOk>>

\* line 73: write_pandas(df_sel_row, staging_table, auto_create_table=False,
\* overwrite=True): the table must exist; it is truncated and loaded
BulkLoad(p) ==
    /\ pc[p] = "load"
    /\ \/ /\ staging[p].exists
          /\ staging' = [staging EXCEPT ![p].rows = df_sel_row[p]]
          /\ Logged(p, "load", TRUE)
          /\ pc' = [pc EXCEPT ![p] = "merge"]
          /\ UNCHANGED shown
       \/ /\ Raise(p, "load", "merge")
          /\ UNCHANGED staging
    /\ UNCHANGED <<T, session, caller, df_cols, sel_defined, df_sel_row, new_row, Tentry,
                   callNo, firstOk>>

\* mutant of StagedRows: the staging table is one table shared by every session
StagedRowsShared(p) ==
    LET q == CHOOSE x \in Procs : x # p
    IN  IF staging[q].exists THEN staging[q].rows ELSE staging[p].rows

\* USING SALES_REVENUE_STAGING AS source: a temp table is private to the
\* session that created it, and every upload opens a session of its own
StagedRows(p) == staging[p].rows

\* lines 102-105: the MERGE, then the success message
Merge(p) ==
    /\ pc[p] = "merge"
    /\ LET res == MergeInto(T, StagedRows(p))
       IN  \/ /\ staging[p].exists
              /\ res.ok
              /\ Size(res.table) <= MaxRows
              /\ T' = res.table
              /\ Logged(p, "merge", TRUE)
              /\ Show(p, "upsert_ok")
              /\ pc' = [pc EXCEPT ![p] = ReturnPc(p)]
              /\ firstOk' = [firstOk EXCEPT ![p] = @ \/ callNo[p] = 1]
           \/ /\ Raise(p, "merge", ReturnPc(p))
              /\ UNCHANGED <<T, firstOk>>
    /\ UNCHANGED <<staging, session, caller, df_cols, sel_defined, df_sel_row,
                   new_row, Tentry, callNo>>

\* a direct call upsert_data(session, R, TABLE_NAME) with an open session
CallUpsert(p, R) ==
    /\ pc[p] = "start"
    /\ session' = [session EXCEPT ![p] = TRUE]
    /\ EnterUpsert(p, R, "direct", {})
    /\ UNCHANGED <<T, staging, df_cols, sel_defined, new_row, callNo, firstOk>>

\* the same call once more: same session, same dataframe
CallAgain(p) ==
    /\ pc[p] = "returned"
    /\ callNo[p] = 1
    /\ callNo' = [callNo EXCEPT ![p] = 2]
    /\ EnterUpsert(p, df_sel_row[p], "direct", {})
    /\ UNCHANGED <<T, staging, session, df_cols, sel_defined, new_row, firstOk>>

NextUpsert ==
    \E p \in Procs :
        \/ \E R \in RowSets(GridRows, MaxSel) : CallUpsert(p, R)
        \/ CreateStaging(p)
        \/ BulkLoad(p)
        \/ Merge(p)
        \/ CallAgain(p)

SpecUpsert == InitUpsert /\ [][NextUpsert]_vars

(* --------------------------- the page script --------------------------- *)
\* LIMIT 10 of the fetch query
FetchLimit == 10

Min(a, b) == IF a <= b THEN a ELSE b

\* SELECT * FROM SALES_REVENUE LIMIT 10: any FetchLimit rows of the table
Fetched(target) ==
    {B \in SubBag(target) : Size(B) = Min(Size(target), FetchLimit)}

\* the texts of the form, one per column of df
FormInputs(cols) ==
    {f \in [cols -> UNION {FormTexts(c) : c \in Cols}] :
        \A c \in cols : f[c] \in FormTexts(c)}

\* lines 139-166: fetch_and_display_data, then the grid.  create_snowflake_
\* session fails or the query raises: an empty dataframe without columns.
\* Otherwise df holds the fetched rows; only a non-empty df reaches line 162,
\* where df_sel_row is bound to the rows selected in the grid (any cell of
\* which may have been edited).
FetchAndRender(p) ==
    /\ pc[p] = "start"
    /\ \/ /\ shown' = [shown EXCEPT ![p] = {"fetch_session_error", "info_no_data"}]
          /\ df_cols' = [df_cols EXCEPT ![p] = {}]
          /\ UNCHANGED <<sel_defined, df_sel_row>>
       \/ /\ shown' = [shown EXCEPT ![p] = {"fetch_session_ok", "fetch_error", "info_no_data"}]
          /\ df_cols' = [df_cols EXCEPT ![p] = {}]
          /\ UNCHANGED <<sel_defined, df_sel_row>>
       \/ \E df \in Fetched(T) :
            /\ df_cols' = [df_cols EXCEPT ![p] = Cols]
            /\ IF df = EmptyBag
               THEN /\ shown' = [shown EXCEPT ![p] = {"fetch_session_ok", "info_no_data"}]
                    /\ UNCHANGED <<sel_defined, df_sel_row>>
               ELSE /\ shown' = [shown EXCEPT ![p] = {"fetch_session_ok"}]
                    /\ sel_defined' = [sel_defined EXCEPT ![p] = TRUE]
                    /\ \E R \in RowSets(PageRows, MaxPick) :
                         /\ Size(R) <= Size(df)
                         /\ df_sel_row' = [df_sel_row EXCEPT ![p] = R]
    /\ pc' = [pc EXCEPT ![p] = "form"]
    /\ UNCHANGED <<T, staging, session, caller, new_row, log, Tentry, callNo, firstOk>>

\* insert_new_row (lines 123-134): the INSERT is built from new_row and
\* executed; the warehouse may reject a well-formed statement too (a type
\* that does not accept the text, a lost connection)
InsertNewRow(p, row) ==
    LET res == InsertInto(T, InsertQueryValues(row))
    IN  \/ /\ res.ok
           /\ Size(res.table) <= MaxRows
           /\ T' = res.table
           /\ shown' = [shown EXCEPT ![p] = @ \cup {"insert_session_ok", "insert_ok"}]
        \/ /\ T' = T
           /\ shown' = [shown EXCEPT ![p] = @ \cup {"insert_session_ok", "insert_error"}]

\* lines 169-180: the form; new_row has one text per column of df
SubmitForm(p) ==
    /\ pc[p] = "form"
    /\ \E row \in FormInputs(df_cols[p]) :
         /\ new_row' = [new_row EXCEPT ![p] = row]
         /\ \/ UNCHANGED <<T, shown>>
            \/ /\ Show(p, "insert_session_error")
               /\ UNCHANGED T
            \/ InsertNewRow(p, row)
    /\ pc' = [pc EXCEPT ![p] = "button"]
    /\ UNCHANGED <<staging, session, caller, df_cols, sel_defined, df_sel_row, log,
                   Tentry, callNo, firstOk>>

\* lines 184-188 and upload_to_snowflake (111-121): the button is not
\* pressed; or it is pressed and df_sel_row is unbound (NameError, which no
\* handler catches), empty (a warning), or non-empty: a new session is
\* created, which owns no temp table yet, and upsert_data is entered
UploadButton(p) ==
    /\ pc[p] = "button"
    /\ \/ /\ pc' = [pc EXCEPT ![p] = "end"]
          /\ UNCHANGED <<staging, session, caller, df_sel_row, shown, log, Tentry>>
       \/ /\ ~sel_defined[p]
          /\ pc' = [pc EXCEPT ![p] = "crashed"]
          /\ UNCHANGED <<staging, session, caller, df_sel_row, shown, log, Tentry>>
       \/ /\ sel_defined[p]
          /\ df_sel_row[p] = EmptyBag
          /\ Show(p, "warn_select")
          /\ pc' = [pc EXCEPT ![p] = "end"]
          /\ UNCHANGED <<staging, session, caller, df_sel_row, log, Tentry>>
       \/ /\ sel_defined[p]
          /\ df_sel_row[p] # EmptyBag
          /\ Show(p, "upload_session_error")
          /\ pc' = [pc EXCEPT ![p] = "end"]
          /\ UNCHANGED <<staging, session, caller, df_sel_row, log, Tentry>>
       \/ /\ sel_defined[p]
          /\ df_sel_row[p] # EmptyBag
          /\ session' = [session EXCEPT ![p] = TRUE]
          /\ staging' = [staging EXCEPT ![p] = NoTable]
          /\ EnterUpsert(p, df_sel_row[p], "page", shown[p] \cup {"upload_session_ok"})
    /\ UNCHANGED <<T, df_cols, sel_defined, new_row, callNo, firstOk>>

\* the next interaction runs the script again from its first line, with new
\* sessions; a direct caller starts over likewise
Rerun(p) ==
    /\ pc[p] \in {"end", "crashed", "returned"}
    /\ pc' = [pc EXCEPT ![p] = "start"]
    /\ staging' = [staging EXCEPT ![p] = NoTable]
    /\ session' = [session EXCEPT ![p] = FALSE]
    /\ caller' = [caller EXCEPT ![p] = "page"]
    /\ df_cols' = [df_cols EXCEPT ![p] = {}]
    /\ sel_defined' = [sel_defined EXCEPT ![p] = FALSE]
    /\ df_sel_row' = [df_sel_row EXCEPT ![p] = EmptyBag]
    /\ new_row' = [new_row EXCEPT ![p] = <<>>]
    /\ shown' = [shown EXCEPT ![p] = {}]
    /\ log' = [log EXCEPT ![p] = <<>>]
    /\ Tentry' = [Tentry EXCEPT ![p] = EmptyBag]
    /\ UNCHANGED <<T, callNo, firstOk>>

Next ==
    \E p \in Procs :
        \/ FetchAndRender(p)
        \/ SubmitForm(p)
        \/ UploadButton(p)
        \/ \E R \in RowSets(PageRows, MaxPick) : CallUpsert(p, R)
        \/ CreateStaging(p)
        \/ BulkLoad(p)
        \/ Merge(p)
        \/ Rerun(p)

Spec == Init /\ [][Next]_vars

\* two page executions at their Upload buttons, interleaved statement by
\* statement
NextRace ==
    \E p \in Procs :
        \/ UploadButton(p)
        \/ CreateStaging(p)
        \/ BulkLoad(p)
        \/ Merge(p)

SpecRace == InitRace /\ [][NextRace]_vars

(* ------------------------------ claims -------------------------------- *)
\* two rows agree on the KeySpec (ORGANIZATIONID, LEVEL1FORCEID) as SQL
\* compares them: equal values, none of them NULL
SameKey(t, r) ==
    \A c \in KeyCols : t[c] # NULL /\ r[c] # NULL /\ t[c] = r[c]

HasNullKey(r) == \E c \in KeyCols : r[c] = NULL

\* a direct call of upsert_data has returned / has returned after the
\* success message
Returned(p) == pc[p] = "returned"

Succeeded(p) == Returned(p) /\ "upsert_ok" \in shown[p]

\* the rows of R (with multiplicity) whose key matched no row of B
Unmatched(R, B) == {r \in DOMAIN R : \A t \in DOMAIN B : ~SameKey(t, r)}

\* C1: after upsert_data completes without error for a non-empty R, every
\* target row whose key matched a row of R carries that row's SALES and
\* REVENUE, and every row of R whose key matched no target row is in T.
C1_UpsertPostcondition ==
    \A p \in Procs :
        (Succeeded(p) /\ df_sel_row[p] # EmptyBag) =>
            \A r \in DOMAIN df_sel_row[p] :
                IF \E t \in DOMAIN Tentry[p] : SameKey(t, r)
                THEN /\ \E t \in DOMAIN T : SameKey(t, r)
                     /\ \A t \in DOMAIN T :
                            SameKey(t, r) => \A c \in UpdateCols : t[c] = r[c]
                ELSE CopiesIn(r, T) >= df_sel_row[p][r]

\* C1 witness: a successful call whose R held a row that matched a target row
\* with other SALES, and a row that matched none
C1_Witness ==
    \E p \in Procs :
        /\ Succeeded(p)
        /\ \E r \in DOMAIN df_sel_row[p] : \E t \in DOMAIN Tentry[p] :
               SameKey(t, r) /\ t.SALES # r.SALES /\ t.REVENUE # r.REVENUE
        /\ Unmatched(df_sel_row[p], Tentry[p]) # {}

\* C3 as stated: after a first call that succeeded, the second call with the
\* same R leaves T as the first call left it.
C3_Idempotent ==
    \A p \in Procs :
        (Returned(p) /\ callNo[p] = 2 /\ firstOk[p]) => T = Tentry[p]

\* C3 amended: the same, for an R whose rows have no NULL in a KeySpec column.
C3_IdempotentNonNullKeys ==
    \A p \in Procs :
        (/\ Returned(p)
         /\ callNo[p] = 2
         /\ firstOk[p]
         /\ \A r \in DOMAIN df_sel_row[p] : ~HasNullKey(r)) => T = Tentry[p]

\* C3 witness: both calls succeeded for a non-empty R without NULL keys, one
\* of whose rows the first call had to insert
C3_Witness ==
    \E p \in Procs :
        /\ Succeeded(p)
        /\ callNo[p] = 2
        /\ firstOk[p]
        /\ df_sel_row[p] # EmptyBag
        /\ \A r \in DOMAIN df_sel_row[p] : ~HasNullKey(r)
        /\ \E r \in DOMAIN df_sel_row[p] : CopiesIn(r, T) = 1
        /\ T = Tentry[p]

\* C6 as stated: after a successful upsert a target row whose key matched a
\* row of R equals that row in every column.
C6_MatchedRowEqualsStaged ==
    \A p \in Procs :
        Succeeded(p) =>
            \A r \in DOMAIN df_sel_row[p] :
                (\E t \in DOMAIN Tentry[p] : SameKey(t, r)) =>
                    \A t \in DOMAIN T : SameKey(t, r) => t = r

\* the rows of a table without their SALES and REVENUE
RowIdentity(t) == [c \in Cols \ UpdateCols |-> t[c]]

IdentityCount(B, i) == BagSum(B, {t \in DOMAIN B : RowIdentity(t) = i})

\* C7: a successful upsert adds exactly one row per row of R whose key matched
\* no target row, and no call removes a target row: what T held at entry is
\* still there, up to SALES and REVENUE.
C7_RowCount ==
    \A p \in Procs :
        Returned(p) =>
            /\ \A t \in DOMAIN Tentry[p] :
                   IdentityCount(T, RowIdentity(t)) >= IdentityCount(Tentry[p], RowIdentity(t))
            /\ Succeeded(p) =>
                   Size(T) = Size(Tentry[p])
                             + BagSum(df_sel_row[p], Unmatched(df_sel_row[p], Tentry[p]))
            /\ ~Succeeded(p) => T = Tentry[p]

\* C7 witness: a successful call with a matched and an unmatched row: the
\* table grew by one
C7_Witness ==
    \E p \in Procs :
        /\ Succeeded(p)
        /\ Size(df_sel_row[p]) = 2
        /\ Size(Tentry[p]) >= 1
        /\ Size(T) = Size(Tentry[p]) + 1

\* C10: a staged row with NULL in a KeySpec column matches no target row, not
\* even one with the same NULL key: a successful merge inserts it, once per
\* copy.
C10_NullKeyInserted ==
    \A p \in Procs :
        Succeeded(p) =>
            \A r \in DOMAIN df_sel_row[p] :
                HasNullKey(r) =>
                    CopiesIn(r, T) = CopiesIn(r, Tentry[p]) + df_sel_row[p][r]

\* C10 witness: a staged row with a NULL key was merged into a table that
\* already held a row with the same key values, and both are there
C10_Witness ==
    \E p \in Procs :
        /\ Succeeded(p)
        /\ \E r \in DOMAIN df_sel_row[p] :
               /\ HasNullKey(r)
               /\ \E t \in DOMAIN Tentry[p] : \A c \in KeyCols : t[c] = r[c]
               /\ CopiesIn(r, T) = CopiesIn(r, Tentry[p]) + 1

\* the statements of upsert_data, in the order of the source
Statements == <<"create", "load", "merge">>

\* C2: upsert_data called with an empty dataframe runs no statement, creates
\* no staging table and leaves T alone, showing only "No data to upload.";
\* Upload pressed with an empty selection opens no session, writes nothing
\* and only warns.
C2_EmptyWritesNothing ==
    /\ [](\A p \in Procs :
            /\ pc[p] \in {"create", "load", "merge"} => df_sel_row[p] # EmptyBag
            /\ "info_no_upload" \in shown[p] =>
                   /\ log[p] = <<>>
                   /\ ~staging[p].exists
                   /\ shown[p] = {"info_no_upload"}
            /\ "warn_select" \in shown[p] =>
                   /\ log[p] = <<>>
                   /\ ~staging[p].exists
                   /\ ~session[p])
    /\ [][\A p \in Procs :
            /\ (/\ pc[p] = "start"
                /\ pc'[p] \notin {"start", "form"}
                /\ df_sel_row'[p] = EmptyBag) =>
                   /\ pc'[p] = "returned"
                   /\ T' = T
                   /\ staging' = staging
            /\ (/\ pc[p] = "button"
                /\ pc'[p] \notin {"button", "crashed"}
                /\ df_sel_row[p] = EmptyBag
                /\ "warn_select" \in shown'[p]) =>
                   /\ pc'[p] = "end"
                   /\ T' = T
                   /\ staging' = staging
                   /\ session' = session]_vars

\* C2 witness: upsert_data has returned from a call with an empty dataframe
\* on a table that holds rows
C2_Witness ==
    \E p \in Procs :
        /\ pc[p] = "returned"
        /\ df_sel_row[p] = EmptyBag
        /\ "info_no_upload" \in shown[p]
        /\ T # EmptyBag

\* C4: the statements run in the order create, load, merge; none runs after
\* one that failed; a call with a failed statement shows the error and not
\* the success message; and a call that ended before its MERGE succeeded
\* left T as it was.
C4_FailureAborts ==
    \A p \in Procs :
        /\ Len(log[p]) <= 3
        /\ \A i \in 1..Len(log[p]) :
               /\ log[p][i][1] = Statements[i]
               /\ i < Len(log[p]) => log[p][i][2]
        /\ "upsert_ok" \in shown[p] =>
               /\ Len(log[p]) = 3
               /\ \A i \in 1..3 : log[p][i][2]
        /\ (\E i \in 1..Len(log[p]) : ~log[p][i][2]) =>
               /\ pc[p] \in {"end", "returned"}
               /\ "upsert_error" \in shown[p]
               /\ "upsert_ok" \notin shown[p]
               /\ T = Tentry[p]

\* C4 witness: the bulk load failed after the staging table was created, and
\* the page ended with the error
C4_Witness ==
    \E p \in Procs :
        /\ log[p] = <<<<"create", TRUE>>, <<"load", FALSE>>>>
        /\ pc[p] = "end"
        /\ "upsert_error" \in shown[p]

\* C5 as stated: no run of the page script ends with an uncaught error.
C5_NoUncaughtError == \A p \in Procs : pc[p] # "crashed"

\* the row an INSERT of the typed texts, each as it was typed, would add
TypedRow(row) == [c \in Cols |-> row[c]]

\* C8: the form's INSERT either adds one row that holds, for every column of
\* the mapping, the text as typed (the empty text for a field left empty,
\* never NULL) and reports success, or fails, shows the error and leaves T
\* alone.
C8_InsertNewRow ==
    [][\A p \in Procs :
          (pc[p] = "form" /\ pc'[p] = "button") =>
              LET row == new_row'[p]
              IN  /\ "insert_ok" \in shown'[p] =>
                         /\ DOMAIN row = df_cols[p]
                         /\ DOMAIN row = Cols
                         /\ T' = T (+) SetToBag({TypedRow(row)})
                         /\ \A c \in Cols : TypedRow(row)[c] # NULL
                         /\ "insert_error" \notin shown'[p]
                  /\ "insert_ok" \notin shown'[p] => T' = T
                  /\ "insert_error" \in shown'[p] => T' = T]_vars

\* C8 witness: a form with the ORGANIZATIONID field left empty was inserted,
\* and the row with the empty text is in the table
C8_Witness ==
    \E p \in Procs :
        /\ pc[p] = "button"
        /\ "insert_ok" \in shown[p]
        /\ DOMAIN new_row[p] = Cols
        /\ new_row[p]["ORGANIZATIONID"] = ""
        /\ TypedRow(new_row[p]) \in DOMAIN T

\* C9 as stated: the staging table is one table for both calls, so a load by
\* one call replaces the rows the other call's MERGE is about to read.
C9_StagingShared ==
    [][\A p, q \in Procs :
          (/\ p # q
           /\ pc[p] = "load"
           /\ pc'[p] = "merge"
           /\ pc[q] = "merge") => StagedRows(q)' = df_sel_row[p]]_vars

\* C9 amended: the staging table is a TEMP table of the session each upload
\* creates, so in every interleaving of two uploads a call's MERGE reads
\* exactly the rows that call staged.
C9_StagingIsolated ==
    \A p \in Procs :
        pc[p] = "merge" =>
            /\ staging[p].exists
            /\ StagedRows(p) = df_sel_row[p]

\* C9 witness: both calls have loaded different rows and are about to merge
C9_Witness ==
    /\ \A p \in Procs : pc[p] = "merge"
    /\ df_sel_row[1] # df_sel_row[2]

====
